---------------------------- MODULE Spec2Model ----------------------------
(***************************************************************************)
(* Model of the eCourts scraper: the request client and the scraper        *)
(* operations of src/ecourts_scraper.py (class ECourtsScraper), its        *)
(* command-line driver (main), and the Flask facade of src/web_api.py.     *)
(*                                                                         *)
(* Three specifications share the variables:                               *)
(*   SpecOps  calls the scraper operations directly, with any input and    *)
(*            any answer of the remote portal;                             *)
(*   Spec     is one run of the command-line driver, step by step;         *)
(*   SpecWeb  is the facade serving requests against the shared scraper.   *)
(***************************************************************************)
EXTENDS Integers, Sequences, FiniteSets, TLC

VARIABLES
    state_code,     \* ECourtsScraper.state_code of the scraper instance
    district_code,  \* ECourtsScraper.district_code of the scraper instance
    calls,          \* remote calls issued so far, in order
    files,          \* the file system: file name -> content
    dirs,           \* directories created so far
    stdout,         \* progress lines written to sys.stdout, in order
    stderr,         \* diagnostics written to sys.stderr, in order
    last,           \* SpecOps: the operation called last, with its outcome
    pc,             \* Spec: position of main()
    args,           \* Spec: the parsed command line
    exit_code,      \* Spec: exit status of the process, -1 while running
    case_details,   \* Spec: main()'s local case_details
    listing_info,   \* Spec: main()'s local listing_info
    todo,           \* Spec: the dates main()'s current loop has still to visit
    reqs            \* SpecWeb: the facade's requests

vars == <<state_code, district_code, calls, files, dirs, stdout, stderr, last,
          pc, args, exit_code, case_details, listing_info, todo, reqs>>

-----------------------------------------------------------------------------
(* Python values that travel through json: None, bool, str, int, dict and  *)
(* list.  A value is a tagged tuple; a dict is the sequence of its         *)
(* <<key, value>> items in insertion order.                                *)

None == <<"null">>

JBool(b) == <<"bool", b>>

JStr(s) == <<"str", s>>

JNum(n) == <<"num", n>>

JObj(items) == <<"obj", items>>

JList(items) == <<"list", items>>

IsDict(v) == v[1] = "obj"

\* Python truth value of v, as tested by `if v:` and `not v`
Truthy(v) ==
    CASE v[1] = "null" -> FALSE
      [] v[1] = "bool" -> v[2]
      [] v[1] = "str"  -> v[2] # ""
      [] v[1] = "num"  -> v[2] # 0
      [] v[1] = "obj"  -> Len(v[2]) > 0
      [] v[1] = "list" -> Len(v[2]) > 0

HasKey(d, key) == \E i \in 1..Len(d[2]) : d[2][i][1] = key

\* dict.get(key, default)
DictGet(d, key, default) ==
    IF HasKey(d, key)
    THEN d[2][CHOOSE i \in 1..Len(d[2]) : d[2][i][1] = key][2]
    ELSE default

-----------------------------------------------------------------------------
(* json.dump and json.load / Response.json(), over the token sequence of   *)
(* the text.  A text that is no JSON document makes the load fail.         *)

RECURSIVE DumpValue(_)
RECURSIVE DumpItems(_, _)
RECURSIVE DumpElems(_, _)

\* the members of a dict from item i on, comma separated
DumpItems(items, i) ==
    IF i > Len(items) THEN <<>>
    ELSE (IF i > 1 THEN << <<",">> >> ELSE <<>>)
         \o << <<"str", items[i][1]>>, <<":">> >>
         \o DumpValue(items[i][2])
         \o DumpItems(items, i + 1)

\* the elements of a list from element i on, comma separated
DumpElems(elems, i) ==
    IF i > Len(elems) THEN <<>>
    ELSE (IF i > 1 THEN << <<",">> >> ELSE <<>>)
         \o DumpValue(elems[i])
         \o DumpElems(elems, i + 1)

DumpValue(v) ==
    CASE v[1] = "null" -> << <<"null">> >>
      [] v[1] = "bool" -> IF v[2] THEN << <<"true">> >> ELSE << <<"false">> >>
      [] v[1] = "str"  -> << <<"str", v[2]>> >>
      [] v[1] = "num"  -> << <<"num", v[2]>> >>
      [] v[1] = "obj"  -> << <<"{">> >> \o DumpItems(v[2], 1) \o << <<"}">> >>
      [] v[1] = "list" -> << <<"[">> >> \o DumpElems(v[2], 1) \o << <<"]">> >>

\* json.dump(data, f, indent=2, ensure_ascii=False): the text written
json_dump(data) == DumpValue(data)

ParseFail == [ok |-> FALSE, val |-> None, next |-> 0]

ParseOk(v, n) == [ok |-> TRUE, val |-> v, next |-> n]

TokAt(toks, i) == IF i <= Len(toks) THEN toks[i] ELSE <<"eof">>

RECURSIVE ParseValue(_, _)
RECURSIVE ParseItems(_, _, _)
RECURSIVE ParseElems(_, _, _)

\* members of a dict, the opening brace consumed; acc holds the items read
ParseItems(toks, i, acc) ==
    LET k == TokAt(toks, i) IN
    IF Len(k) = 2 /\ k[1] = "str" /\ TokAt(toks, i + 1) = <<":">>
    THEN LET r == ParseValue(toks, i + 2) IN
         IF ~r.ok THEN ParseFail
         ELSE LET acc2 == Append(acc, <<k[2], r.val>>)
                  sep  == TokAt(toks, r.next) IN
              CASE sep = <<",">> -> ParseItems(toks, r.next + 1, acc2)
                [] sep = <<"}">> -> ParseOk(JObj(acc2), r.next + 1)
                [] OTHER -> ParseFail
    ELSE ParseFail

\* elements of a list, the opening bracket consumed
ParseElems(toks, i, acc) ==
    LET r == ParseValue(toks, i) IN
    IF ~r.ok THEN ParseFail
    ELSE LET acc2 == Append(acc, r.val)
             sep  == TokAt(toks, r.next) IN
         CASE sep = <<",">> -> ParseElems(toks, r.next + 1, acc2)
           [] sep = <<"]">> -> ParseOk(JList(acc2), r.next + 1)
           [] OTHER -> ParseFail

ParseValue(toks, i) ==
    LET t == TokAt(toks, i) IN
    CASE t = <<"null">>  -> ParseOk(None, i + 1)
      [] t = <<"true">>  -> ParseOk(JBool(TRUE), i + 1)
      [] t = <<"false">> -> ParseOk(JBool(FALSE), i + 1)
      [] Len(t) = 2 /\ t[1] = "str" -> ParseOk(JStr(t[2]), i + 1)
      [] Len(t) = 2 /\ t[1] = "num" -> ParseOk(JNum(t[2]), i + 1)
      [] t = <<"{">> -> IF TokAt(toks, i + 1) = <<"}">>
                        THEN ParseOk(JObj(<<>>), i + 2)
                        ELSE ParseItems(toks, i + 1, <<>>)
      [] t = <<"[">> -> IF TokAt(toks, i + 1) = <<"]">>
                        THEN ParseOk(JList(<<>>), i + 2)
                        ELSE ParseElems(toks, i + 1, <<>>)
      [] OTHER -> ParseFail

\* json.load(f) and Response.json(): ok is FALSE where they raise
\* json.JSONDecodeError
json_load(text) ==
    LET r == ParseValue(text, 1) IN
    IF r.ok /\ r.next = Len(text) + 1
    THEN [ok |-> TRUE, val |-> r.val]
    ELSE [ok |-> FALSE, val |-> None]

-----------------------------------------------------------------------------
(* Dates.  datetime.now() is a day [y, m, d]; timedelta(days=1) moves to   *)
(* the next day of the calendar.                                           *)

IsLeap(y) == (y % 4 = 0 /\ y % 100 # 0) \/ y % 400 = 0

DaysIn(y, m) ==
    CASE m = 2 -> IF IsLeap(y) THEN 29 ELSE 28
      [] m \in {4, 6, 9, 11} -> 30
      [] OTHER -> 31

\* date + timedelta(days=1)
NextDay(date) ==
    IF date.d < DaysIn(date.y, date.m)
    THEN [date EXCEPT !.d = date.d + 1]
    ELSE IF date.m < 12
         THEN [date EXCEPT !.m = date.m + 1, !.d = 1]
         ELSE [y |-> date.y + 1, m |-> 1, d |-> 1]

\* a field of strftime, zero padded to two digits
Pad2(n) == IF n < 10 THEN "0" \o ToString(n) ELSE ToString(n)

\* date.strftime("%d-%m-%Y")
strftime_dmy(date) == Pad2(date.d) \o "-" \o Pad2(date.m) \o "-" \o ToString(date.y)

\* date.strftime('%Y-%m-%d')
strftime_Y_m_d(date) ==
    ToString(date.y) \o "-" \o Pad2(date.m) \o "-" \o Pad2(date.d)

\* date.strftime('%Y%m%d')
strftime_Ymd(date) == ToString(date.y) \o Pad2(date.m) \o Pad2(date.d)

\* str(v) inside an f-string, for the values a file name is built from
PyStr(v) ==
    CASE v[1] = "str"  -> v[2]
      [] v[1] = "num"  -> ToString(v[2])
      [] v[1] = "null" -> "None"
      [] v[1] = "bool" -> IF v[2] THEN "True" ELSE "False"
      [] OTHER -> "<object>"

-----------------------------------------------------------------------------
(* The request client.  An answer of the transport is a record             *)
(*   [exc, status, ctype, content]:                                        *)
(* exc names the requests exception session.get/post raises ("none" when   *)
(* it returns), status is the HTTP status, ctype the content-type header   *)
(* (None when the header is absent), content the body.                     *)

\* Response.raise_for_status() raises HTTPError for 4xx and 5xx
RaisesForStatus(r) == r.status >= 400 /\ r.status < 600

\* bool(response), which is Response.ok
ResponseTruthy(r) == ~RaisesForStatus(r)

\* _make_request with `except requests.exceptions.Timeout` in place of
\* `except requests.exceptions.RequestException`
_make_request_except_timeout(endpoint, method, data, params, r) ==
    LET call == [endpoint |-> endpoint, method |-> method,
                 data |-> IF method = "GET" THEN None ELSE data,
                 params |-> params]
    IN  IF r.exc = "Timeout"
        THEN [isNone |-> TRUE, response |-> r, calls |-> <<call>>,
              err |-> <<"Request error">>, raised |-> "none"]
        ELSE IF r.exc # "none"
        THEN [isNone |-> TRUE, response |-> r, calls |-> <<call>>,
              err |-> <<>>, raised |-> r.exc]
        ELSE IF RaisesForStatus(r)
        THEN [isNone |-> TRUE, response |-> r, calls |-> <<call>>,
              err |-> <<>>, raised |-> "HTTPError"]
        ELSE [isNone |-> FALSE, response |-> r, calls |-> <<call>>,
              err |-> <<>>, raised |-> "none"]

\* ECourtsScraper._make_request: isNone where it returns None, raised the
\* exception that leaves it ("none": `except RequestException` catches every
\* exception of the transport and of raise_for_status)
_make_request(endpoint, method, data, params, r) ==
    LET call == [endpoint |-> endpoint, method |-> method,
                 data |-> IF method = "GET" THEN None ELSE data,
                 params |-> params]
    IN  IF r.exc # "none" \/ RaisesForStatus(r)
        THEN [isNone |-> TRUE, response |-> r, calls |-> <<call>>,
              err |-> <<"Request error">>, raised |-> "none"]
        ELSE [isNone |-> FALSE, response |-> r, calls |-> <<call>>,
              err |-> <<>>, raised |-> "none"]

\* `if response:` on what _make_request returned
GotResponse(q) == ~q.isNone /\ ResponseTruthy(q.response)

\* What one operation did: the value returned (None where it raised), the
\* exception that left it ("none" where it returned), the lines printed,
\* the remote calls issued, the files written and the directories made.
OpResult(ret, raised, out, err, rcalls, writes, mkdirs) ==
    [ret |-> ret, raised |-> raised, out |-> out, err |-> err,
     calls |-> rcalls, writes |-> writes, mkdirs |-> mkdirs]

\* an exception leaving _make_request leaves the operation that called it
Propagated(q, out, mkdirs) ==
    OpResult(None, q.raised, out, q.err, q.calls, <<>>, mkdirs)

\* ECourtsScraper.get_case_by_cnr
get_case_by_cnr(self, cnr, r) ==
    LET data == JObj(<< <<"state_code", self.state_code>>,
                        <<"dist_code", self.district_code>>,
                        <<"cnr_number", cnr>> >>)
        q == _make_request("case_status/cnr_search.php", "POST", data, None, r)
        j == json_load(q.response.content)
        out == <<"Searching for CNR">>
    IN  IF q.raised # "none" THEN Propagated(q, out, {})
        ELSE IF GotResponse(q)
        THEN IF j.ok
             THEN OpResult(j.val, "none", out, q.err, q.calls, <<>>, {})
             ELSE OpResult(None, "none", out,
                           q.err \o <<"Failed to parse response">>,
                           q.calls, <<>>, {})
        ELSE OpResult(None, "none", out, q.err, q.calls, <<>>, {})

\* ECourtsScraper.get_case_by_details
get_case_by_details(self, case_type, case_number, case_year, r) ==
    LET data == JObj(<< <<"state_code", self.state_code>>,
                        <<"dist_code", self.district_code>>,
                        <<"case_type", case_type>>,
                        <<"case_no", case_number>>,
                        <<"case_year", case_year>> >>)
        q == _make_request("case_status/case_number_search.php", "POST",
                           data, None, r)
        j == json_load(q.response.content)
        out == <<"Searching for case">>
    IN  IF q.raised # "none" THEN Propagated(q, out, {})
        ELSE IF GotResponse(q)
        THEN IF j.ok
             THEN OpResult(j.val, "none", out, q.err, q.calls, <<>>, {})
             ELSE OpResult(None, "none", out,
                           q.err \o <<"Failed to parse response">>,
                           q.calls, <<>>, {})
        ELSE OpResult(None, "none", out, q.err, q.calls, <<>>, {})

\* the record check_listing assembles from a listing that is listed
ListingRecord(date_str, listing) ==
    JObj(<< <<"date", JStr(date_str)>>,
            <<"serial_number", DictGet(listing, "serial_no", None)>>,
            <<"court_name", DictGet(listing, "court_name", None)>>,
            <<"court_hall", DictGet(listing, "court_hall", None)>>,
            <<"hearing_time", DictGet(listing, "hearing_time", None)>> >>)

\* check_listing testing `'is_listed' in listing` in place of the flag's
\* truth value
check_listing_flag_present(self, details, date, r) ==
    LET date_str == strftime_dmy(date)
        out == <<"Checking listing">>
        data == JObj(<< <<"state_code", self.state_code>>,
                        <<"dist_code", self.district_code>>,
                        <<"date", JStr(date_str)>>,
                        <<"case_id", DictGet(details, "case_id", JStr(""))>> >>)
        q == _make_request("cause_list/listing_by_date.php", "POST",
                           data, None, r)
        j == json_load(q.response.content)
    IN  IF GotResponse(q) /\ j.ok /\ IsDict(j.val) /\ HasKey(j.val, "is_listed")
        THEN OpResult(ListingRecord(date_str, j.val), "none", out,
                      q.err, q.calls, <<>>, {})
        ELSE OpResult(None, "none", out, q.err, q.calls, <<>>, {})

\* ECourtsScraper.check_listing.  case_details.get and listing.get raise
\* AttributeError on a value that is no dict.
check_listing(self, details, date, r) ==
    LET date_str == strftime_dmy(date)
        out == <<"Checking listing">>
        data == JObj(<< <<"state_code", self.state_code>>,
                        <<"dist_code", self.district_code>>,
                        <<"date", JStr(date_str)>>,
                        <<"case_id", DictGet(details, "case_id", JStr(""))>> >>)
        q == _make_request("cause_list/listing_by_date.php", "POST",
                           data, None, r)
        j == json_load(q.response.content)
    IN  IF ~IsDict(details)
        THEN OpResult(None, "AttributeError", out, <<>>, <<>>, <<>>, {})
        ELSE IF q.raised # "none" THEN Propagated(q, out, {})
        ELSE IF GotResponse(q)
        THEN IF j.ok
             THEN IF ~IsDict(j.val)
                  THEN OpResult(None, "AttributeError", out, q.err, q.calls,
                                <<>>, {})
                  ELSE IF Truthy(DictGet(j.val, "is_listed", None))
                  THEN OpResult(ListingRecord(date_str, j.val), "none", out,
                                q.err, q.calls, <<>>, {})
                  ELSE OpResult(None, "none", out, q.err, q.calls, <<>>, {})
             ELSE OpResult(None, "none", out, q.err, q.calls, <<>>, {})
        ELSE OpResult(None, "none", out, q.err, q.calls, <<>>, {})

\* download_case_pdf accepting any content type that starts with
\* 'application/pdf', whatever its case
download_case_pdf_lenient(self, details, output_dir, r) ==
    LET out == <<"Attempting to download case PDF">>
        params == JObj(<< <<"case_id", DictGet(details, "case_id", JStr(""))>>,
                          <<"state_code", self.state_code>> >>)
        q == _make_request("case_status/download_case_pdf.php", "GET",
                           None, params, r)
        filename == output_dir \o "/case_"
                    \o PyStr(DictGet(details, "cnr", JStr("unknown")))
                    \o ".pdf"
    IN  IF GotResponse(q)
           /\ q.response.ctype \in {JStr("application/pdf"),
                                     JStr("application/pdf; charset=binary"),
                                     JStr("Application/PDF")}
        THEN OpResult(JStr(filename), "none", out \o <<"PDF saved">>, q.err,
                      q.calls, << <<filename, q.response.content>> >>,
                      {output_dir})
        ELSE OpResult(None, "none", out, q.err \o <<"PDF not available">>,
                      q.calls, <<>>, {output_dir})

\* ECourtsScraper.download_case_pdf
download_case_pdf(self, details, output_dir, r) ==
    LET out == <<"Attempting to download case PDF">>
        params == JObj(<< <<"case_id", DictGet(details, "case_id", JStr(""))>>,
                          <<"state_code", self.state_code>> >>)
        q == _make_request("case_status/download_case_pdf.php", "GET",
                           None, params, r)
        filename == output_dir \o "/case_"
                    \o PyStr(DictGet(details, "cnr", JStr("unknown")))
                    \o ".pdf"
    IN  IF ~IsDict(details)
        THEN OpResult(None, "AttributeError", out, <<>>, <<>>, <<>>,
                      {output_dir})
        ELSE IF q.raised # "none" THEN Propagated(q, out, {output_dir})
        ELSE IF GotResponse(q) /\ q.response.ctype = JStr("application/pdf")
        THEN OpResult(JStr(filename), "none", out \o <<"PDF saved">>, q.err,
                      q.calls, << <<filename, q.response.content>> >>,
                      {output_dir})
        ELSE OpResult(None, "none", out, q.err \o <<"PDF not available">>,
                      q.calls, <<>>, {output_dir})

\* download_cause_list with the file opened to append ('a') in place of 'w'
download_cause_list_append(self, date, output_dir, r) ==
    LET date_str == strftime_dmy(date)
        out == <<"Downloading cause list">>
        data == JObj(<< <<"state_code", self.state_code>>,
                        <<"dist_code", self.district_code>>,
                        <<"date", JStr(date_str)>> >>)
        q == _make_request("cause_list/daily_cause_list.php", "POST",
                           data, None, r)
        j == json_load(q.response.content)
        filename == output_dir \o "/cause_list_" \o strftime_Ymd(date)
                    \o ".json"
        before == IF filename \in DOMAIN files THEN files[filename] ELSE <<>>
    IN  IF q.raised # "none" THEN Propagated(q, out, {output_dir})
        ELSE IF GotResponse(q)
        THEN IF j.ok
             THEN OpResult(JStr(filename), "none",
                           out \o <<"Cause list saved">>, q.err, q.calls,
                           << <<filename, before \o json_dump(j.val)>> >>,
                           {output_dir})
             ELSE OpResult(None, "none", out,
                           q.err \o <<"Failed to parse cause list">>,
                           q.calls, <<>>, {output_dir})
        ELSE OpResult(None, "none", out, q.err, q.calls, <<>>, {output_dir})

\* ECourtsScraper.download_cause_list
download_cause_list(self, date, output_dir, r) ==
    LET date_str == strftime_dmy(date)
        out == <<"Downloading cause list">>
        data == JObj(<< <<"state_code", self.state_code>>,
                        <<"dist_code", self.district_code>>,
                        <<"date", JStr(date_str)>> >>)
        q == _make_request("cause_list/daily_cause_list.php", "POST",
                           data, None, r)
        j == json_load(q.response.content)
        filename == output_dir \o "/cause_list_" \o strftime_Ymd(date)
                    \o ".json"
    IN  IF q.raised # "none" THEN Propagated(q, out, {output_dir})
        ELSE IF GotResponse(q)
        THEN IF j.ok
             THEN OpResult(JStr(filename), "none",
                           out \o <<"Cause list saved">>, q.err, q.calls,
                           << <<filename, json_dump(j.val)>> >>, {output_dir})
             ELSE OpResult(None, "none", out,
                           q.err \o <<"Failed to parse cause list">>,
                           q.calls, <<>>, {output_dir})
        ELSE OpResult(None, "none", out, q.err, q.calls, <<>>, {output_dir})

\* save_results leaving out the members of data whose value is None
save_results_skip_none(data, filename, output_dir) ==
    LET filepath == output_dir \o "/" \o filename
        kept == SelectSeq(data[2], LAMBDA it : it[2] # None)
    IN  OpResult(JStr(filepath), "none", <<"Results saved">>, <<>>, <<>>,
                 << <<filepath, json_dump(JObj(kept))>> >>, {output_dir})

\* ECourtsScraper.save_results
save_results(data, filename, output_dir) ==
    LET filepath == output_dir \o "/" \o filename
    IN  OpResult(JStr(filepath), "none", <<"Results saved">>, <<>>, <<>>,
                 << <<filepath, json_dump(data)>> >>, {output_dir})

-----------------------------------------------------------------------------
(* The remote portal.  It answers a call with any of these.                *)

CaseA ==
    JObj(<< <<"cnr", JStr("DLNC01")>>, <<"case_id", JStr("42")>>,
            <<"petitioner_name", JStr("A")>> >>)

Listed ==
    JObj(<< <<"is_listed", JBool(TRUE)>>, <<"serial_no", JNum(7)>>,
            <<"court_name", JStr("Court 3")>>, <<"court_hall", JStr("H2")>>,
            <<"hearing_time", JStr("10:30")>> >>)

\* listed by a flag that is truthy without being true, nothing else given
ListedBare == JObj(<< <<"is_listed", JNum(1)>> >>)

NotListed ==
    JObj(<< <<"is_listed", JBool(FALSE)>>, <<"serial_no", JNum(7)>>,
            <<"court_name", JStr("Court 3")>> >>)

\* a listing answer without the flag
NoFlag == JObj(<< <<"court_name", JStr("Court 3")>> >>)

JsonValues ==
    {CaseA, Listed, ListedBare, NotListed, NoFlag, JObj(<<>>), JList(<<>>),
     JStr("maintenance"), None}

\* bodies that are no JSON document: empty, an HTML page, a cut-off document
NotJson ==
    {<<>>, << <<"junk", "<html>">> >>, << <<"{">>, <<"str", "cnr">> >>}

PdfBytes == << <<"junk", "%PDF-1.4">> >>

ContentTypes ==
    {JStr("application/pdf"), JStr("application/pdf; charset=binary"),
     JStr("Application/PDF"), JStr("text/html"), None}

Answer(exc, status, ctype, content) ==
    [exc |-> exc, status |-> status, ctype |-> ctype, content |-> content]

\* the transport raises, or the status is an error status
Failures ==
    {Answer("Timeout", 0, None, <<>>), Answer("ConnectionError", 0, None, <<>>),
     Answer("none", 404, JStr("text/html"), << <<"junk", "<html>">> >>),
     Answer("none", 500, JStr("application/json"), json_dump(CaseA))}

Remote ==
    Failures
    \cup {Answer("none", 200, JStr("application/json"), json_dump(v)) :
             v \in JsonValues}
    \cup {Answer("none", 200, JStr("text/html"), b) : b \in NotJson}
    \cup {Answer("none", 200, c, PdfBytes) : c \in ContentTypes}

\* Answers to one run of main().  The cause list is an opaque blob that
\* main() never reads: two blobs stand for it there.
CliRemote(endpoint) ==
    IF endpoint = "cause_list/daily_cause_list.php"
    THEN {r \in Remote :
            \/ r.status # 200
            \/ r.content \in {json_dump(CaseA), json_dump(JList(<<>>)),
                               << <<"junk", "<html>">> >>}}
    ELSE Remote

\* the day datetime.now() reports
Now == [y |-> 2024, m |-> 12, d |-> 31]

-----------------------------------------------------------------------------
(* Effects of an operation on the process and its file system.             *)

RECURSIVE WriteAll(_, _)

\* open(name, 'w') and write, for each <<name, content>> in turn
WriteAll(fs, writes) ==
    IF writes = <<>> THEN fs
    ELSE WriteAll((writes[1][1] :> writes[1][2]) @@ fs, Tail(writes))

Apply(e) ==
    /\ stdout' = stdout \o e.out
    /\ stderr' = stderr \o e.err
    /\ calls' = calls \o e.calls
    /\ files' = WriteAll(files, e.writes)
    /\ dirs' = dirs \cup e.mkdirs

Self == [state_code |-> state_code, district_code |-> district_code]

NoFiles == [n \in {} |-> <<>>]

NoLast ==
    [op |-> "none", n |-> 0, remote |-> Answer("none", 0, None, <<>>),
     input |-> <<>>, res |-> OpResult(None, "none", <<>>, <<>>, <<>>, <<>>, {})]

CliIdle ==
    /\ pc = "idle" /\ args = <<>> /\ exit_code = -1
    /\ case_details = None /\ listing_info = None /\ todo = <<>>

-----------------------------------------------------------------------------
(* SpecOps: the scraper operations, called directly.                       *)

\* number of operations one behaviour of SpecOps calls
MaxOps == 1

StateCodes == {JStr("DL"), JStr("MH")}

DetailsInputs == {CaseA, JObj(<<>>)}

DateInputs == {Now, NextDay(Now)}

OpsInit ==
    /\ state_code \in StateCodes
    /\ district_code = JStr("1")
    /\ calls = <<>> /\ files = NoFiles /\ dirs = {}
    /\ stdout = <<>> /\ stderr = <<>>
    /\ last = NoLast
    /\ reqs = <<>>
    /\ CliIdle

OpsFrame ==
    UNCHANGED <<state_code, district_code, pc, args, exit_code, case_details,
                listing_info, todo, reqs>>

Called(op, input, r, e) ==
    /\ last.n < MaxOps
    /\ last' = [op |-> op, n |-> last.n + 1, remote |-> r, input |-> input,
                res |-> e]
    /\ Apply(e)
    /\ OpsFrame

CallGetCaseByCnr ==
    \E r \in Remote :
        Called("get_case_by_cnr", <<JStr("DLNC01")>>, r,
               get_case_by_cnr(Self, JStr("DLNC01"), r))

CallGetCaseByDetails ==
    \E r \in Remote :
        Called("get_case_by_details", <<JStr("CS"), JStr("123"), JStr("2024")>>,
               r, get_case_by_details(Self, JStr("CS"), JStr("123"),
                                      JStr("2024"), r))

CallCheckListing ==
    \E r \in Remote, cd \in DetailsInputs, date \in DateInputs :
        Called("check_listing", <<cd, date>>, r,
               check_listing(Self, cd, date, r))

CallDownloadCasePdf ==
    \E r \in Remote, cd \in DetailsInputs :
        Called("download_case_pdf", <<cd>>, r,
               download_case_pdf(Self, cd, "downloads", r))

CallDownloadCauseList ==
    \E r \in Remote, date \in DateInputs :
        Called("download_cause_list", <<date>>, r,
               download_cause_list(Self, date, "downloads", r))

OpsNext ==
    \/ CallGetCaseByCnr
    \/ CallGetCaseByDetails
    \/ CallCheckListing
    \/ CallDownloadCasePdf
    \/ CallDownloadCauseList

SpecOps == OpsInit /\ [][OpsNext]_vars

-----------------------------------------------------------------------------
(* Spec: one run of main(), the command-line driver.                       *)

\* the command lines: a str option is None when it is not given
ArgsSpace ==
    [cnr : {None, JStr(""), JStr("DLNC01")},
     case_type : {None, JStr("CS")},
     case_number : {None, JStr("123")},
     case_year : {None, JStr("2024")},
     today : BOOLEAN, tomorrow : BOOLEAN,
     download_pdf : BOOLEAN, causelist : BOOLEAN,
     state : {JStr("DL")}, district : {JStr("1")},
     output_dir : {"output"}]

\* args.case_type and args.case_number and args.case_year
FullTriple(a) ==
    Truthy(a.case_type) /\ Truthy(a.case_number) /\ Truthy(a.case_year)

UsageNoMode ==
    "Provide either --cnr OR (--case-type, --case-number, --case-year) OR --causelist"

UsageNeedsDay == "--causelist requires --today or --tomorrow"

\* UsageError with the first check taking any one of --case-type,
\* --case-number, --case-year for a case search
UsageError_any_of_triple(a) ==
    IF /\ ~Truthy(a.cnr)
       /\ ~(Truthy(a.case_type) \/ Truthy(a.case_number) \/ Truthy(a.case_year))
       /\ ~a.causelist
    THEN UsageNoMode
    ELSE IF a.causelist /\ ~(a.today \/ a.tomorrow) THEN UsageNeedsDay
    ELSE ""

\* UsageError with the second check made only when no case is searched
UsageError_day_only_without_case(a) ==
    IF ~Truthy(a.cnr) /\ ~FullTriple(a) /\ ~a.causelist THEN UsageNoMode
    ELSE IF /\ a.causelist /\ ~(a.today \/ a.tomorrow)
            /\ ~Truthy(a.cnr) /\ ~FullTriple(a)
    THEN UsageNeedsDay
    ELSE ""

\* UsageError with a third check that rejects more than one lookup mode
UsageError_exclusive(a) ==
    IF ~Truthy(a.cnr) /\ ~FullTriple(a) /\ ~a.causelist THEN UsageNoMode
    ELSE IF a.causelist /\ ~(a.today \/ a.tomorrow) THEN UsageNeedsDay
    ELSE IF \/ Truthy(a.cnr) /\ FullTriple(a)
            \/ Truthy(a.cnr) /\ a.causelist
            \/ FullTriple(a) /\ a.causelist
    THEN "Provide exactly one lookup mode"
    ELSE ""

\* the two checks of main() under "Validate inputs": the message
\* parser.error is called with, "" when both checks pass
UsageError(a) ==
    IF ~Truthy(a.cnr) /\ ~FullTriple(a) /\ ~a.causelist THEN UsageNoMode
    ELSE IF a.causelist /\ ~(a.today \/ a.tomorrow) THEN UsageNeedsDay
    ELSE ""

\* the dates main() collects for --today and --tomorrow
Dates(a) ==
    (IF a.today THEN <<Now>> ELSE <<>>)
    \o (IF a.tomorrow THEN <<NextDay(Now)>> ELSE <<>>)

\* the test after the lookup written `if case_details is None:`
NoCaseDetails_is_none(cd) == cd = None

\* `if not case_details:` after the lookup
NoCaseDetails(cd) == ~Truthy(cd)

\* datetime.now().isoformat(), the time of day left at midnight
Isoformat(date) ==
    ToString(date.y) \o "-" \o Pad2(date.m) \o "-" \o Pad2(date.d)
    \o "T00:00:00"

\* the results main() hands to save_results
Results(a, cd, li) ==
    JObj(<< <<"timestamp", JStr(Isoformat(Now))>>,
            <<"case_details", cd>>,
            <<"listing_info", li>>,
            <<"search_params",
              JObj(<< <<"cnr", a.cnr>>, <<"case_type", a.case_type>>,
                      <<"case_number", a.case_number>>,
                      <<"case_year", a.case_year>> >>)>> >>)

\* f"case_search_{datetime.now().strftime('%Y%m%d_%H%M%S')}.json"
ResultsFilename == "case_search_" \o strftime_Ymd(Now) \o "_000000.json"

Init ==
    /\ state_code = None /\ district_code = None
    /\ calls = <<>> /\ files = NoFiles /\ dirs = {}
    /\ stdout = <<>> /\ stderr = <<>>
    /\ last = NoLast
    /\ reqs = <<>>
    /\ pc = "validate"
    /\ args \in ArgsSpace
    /\ exit_code = -1
    /\ case_details = None /\ listing_info = None /\ todo = <<>>

NoEffect == UNCHANGED <<calls, files, dirs, stdout, stderr>>

\* the process ends with status code
Exit(code) == pc' = "exit" /\ exit_code' = code

\* an exception nothing catches: the traceback goes to stderr, the status is 1
Crash(e) ==
    /\ Apply([e EXCEPT !.err = e.err \o <<"Traceback: " \o e.raised>>])
    /\ Exit(1)

\* parser.error(): the usage message goes to stderr, the status is 2
UsageExit ==
    /\ pc = "validate"
    /\ UsageError(args) # ""
    /\ stderr' = stderr \o <<UsageError(args)>>
    /\ Exit(2)
    /\ UNCHANGED <<state_code, district_code, calls, files, dirs, stdout,
                   last, args, case_details, listing_info, todo, reqs>>

\* the checks pass: the scraper is constructed, and with --causelist the
\* dates of the cause lists are collected
Construct ==
    /\ pc = "validate"
    /\ UsageError(args) = ""
    /\ state_code' = args.state
    /\ district_code' = args.district
    /\ pc' = IF args.causelist THEN "causelist" ELSE "lookup"
    /\ todo' = IF args.causelist THEN Dates(args) ELSE <<>>
    /\ NoEffect
    /\ UNCHANGED <<last, args, exit_code, case_details, listing_info, reqs>>

\* one turn of `for date in dates: scraper.download_cause_list(...)`
CauseListStep ==
    /\ pc = "causelist"
    /\ todo # <<>>
    /\ \E r \in CliRemote("cause_list/daily_cause_list.php") :
          LET e == download_cause_list(Self, Head(todo), args.output_dir, r)
          IN  IF e.raised # "none"
              THEN Crash(e) /\ UNCHANGED todo
              ELSE Apply(e) /\ todo' = Tail(todo)
                   /\ UNCHANGED <<pc, exit_code>>
    /\ UNCHANGED <<state_code, district_code, last, args, case_details,
                   listing_info, reqs>>

\* the loop is over: `if not args.cnr and not args.case_type: return`
CauseListDone ==
    /\ pc = "causelist"
    /\ todo = <<>>
    /\ IF ~Truthy(args.cnr) /\ ~Truthy(args.case_type)
       THEN Exit(0)
       ELSE pc' = "lookup" /\ UNCHANGED exit_code
    /\ NoEffect
    /\ UNCHANGED <<state_code, district_code, last, args, case_details,
                   listing_info, todo, reqs>>

\* what follows the lookup: exit 1 without case details, else on to the
\* listing checks
AfterLookup(e) ==
    IF e.raised # "none" THEN Crash(e) /\ UNCHANGED <<case_details, todo>>
    ELSE /\ case_details' = e.ret
         /\ IF NoCaseDetails(e.ret)
            THEN /\ Apply([e EXCEPT !.err =
                               e.err \o <<"Could not fetch case details">>])
                 /\ Exit(1)
                 /\ UNCHANGED todo
            ELSE /\ Apply(e)
                 /\ pc' = "listing"
                 /\ todo' = Dates(args)
                 /\ UNCHANGED exit_code

LookupFrame ==
    UNCHANGED <<state_code, district_code, last, args, listing_info, reqs>>

\* `if args.cnr: case_details = scraper.get_case_by_cnr(args.cnr)`
FetchByCnr ==
    /\ pc = "lookup"
    /\ Truthy(args.cnr)
    /\ \E r \in CliRemote("case_status/cnr_search.php") :
          AfterLookup(get_case_by_cnr(Self, args.cnr, r))
    /\ LookupFrame

\* `elif args.case_type and args.case_number and args.case_year: ...`
FetchByDetails ==
    /\ pc = "lookup"
    /\ ~Truthy(args.cnr)
    /\ FullTriple(args)
    /\ \E r \in CliRemote("case_status/case_number_search.php") :
          AfterLookup(get_case_by_details(Self, args.case_type,
                                          args.case_number, args.case_year, r))
    /\ LookupFrame

\* neither branch: case_details stays None
FetchNothing ==
    /\ pc = "lookup"
    /\ ~Truthy(args.cnr)
    /\ ~FullTriple(args)
    /\ AfterLookup(OpResult(None, "none", <<>>, <<>>, <<>>, <<>>, {}))
    /\ LookupFrame

\* the loop of the listing checks without its break: every day asked for is
\* checked
CheckListingStep_no_break ==
    /\ pc = "listing"
    /\ todo # <<>>
    /\ \E r \in CliRemote("cause_list/listing_by_date.php") :
          LET e == check_listing(Self, case_details, Head(todo), r)
          IN  IF e.raised # "none"
              THEN Crash(e) /\ UNCHANGED <<listing_info, todo>>
              ELSE /\ Apply(e)
                   /\ UNCHANGED <<exit_code, pc>>
                   /\ todo' = Tail(todo)
                   /\ listing_info' = IF Truthy(e.ret) THEN e.ret
                                      ELSE listing_info
    /\ UNCHANGED <<state_code, district_code, last, args, case_details, reqs>>

\* one turn of `for label, date in dates:`, with its break
CheckListingStep ==
    /\ pc = "listing"
    /\ todo # <<>>
    /\ \E r \in CliRemote("cause_list/listing_by_date.php") :
          LET e == check_listing(Self, case_details, Head(todo), r)
          IN  IF e.raised # "none"
              THEN Crash(e) /\ UNCHANGED <<listing_info, todo>>
              ELSE /\ Apply(e)
                   /\ UNCHANGED exit_code
                   /\ IF Truthy(e.ret)
                      THEN /\ listing_info' = e.ret
                           /\ todo' = <<>>
                           /\ pc' = "display"
                      ELSE /\ todo' = Tail(todo)
                           /\ UNCHANGED <<listing_info, pc>>
    /\ UNCHANGED <<state_code, district_code, last, args, case_details, reqs>>

\* the loop ended without a break, or there was no day to check
ListingDone ==
    /\ pc = "listing"
    /\ todo = <<>>
    /\ pc' = "display"
    /\ NoEffect
    /\ UNCHANGED <<state_code, district_code, last, args, exit_code,
                   case_details, listing_info, todo, reqs>>

\* display_case_info(case_details, listing_info); case_details.get raises
\* AttributeError on a value that is no dict
display_case_info(cd, li) ==
    IF ~IsDict(cd)
    THEN OpResult(None, "AttributeError", <<"CASE INFORMATION">>, <<>>, <<>>,
                  <<>>, {})
    ELSE OpResult(None, "none",
                  <<"CASE INFORMATION",
                    IF Truthy(li) THEN "LISTING DETAILS"
                    ELSE "Case is NOT listed">>,
                  <<>>, <<>>, <<>>, {})

Display ==
    /\ pc = "display"
    /\ LET e == display_case_info(case_details, listing_info)
       IN  IF e.raised # "none"
           THEN Crash(e)
           ELSE /\ Apply(e)
                /\ pc' = IF args.download_pdf THEN "pdf" ELSE "save"
                /\ UNCHANGED exit_code
    /\ UNCHANGED <<state_code, district_code, last, args, case_details,
                   listing_info, todo, reqs>>

\* `if args.download_pdf: scraper.download_case_pdf(...)`
DownloadPdf ==
    /\ pc = "pdf"
    /\ \E r \in CliRemote("case_status/download_case_pdf.php") :
          LET e == download_case_pdf(Self, case_details, args.output_dir, r)
          IN  IF e.raised # "none"
              THEN Crash(e)
              ELSE Apply(e) /\ pc' = "save" /\ UNCHANGED exit_code
    /\ UNCHANGED <<state_code, district_code, last, args, case_details,
                   listing_info, todo, reqs>>

\* the results are saved and main() returns
SaveResults ==
    /\ pc = "save"
    /\ Apply(save_results(Results(args, case_details, listing_info),
                          ResultsFilename, args.output_dir))
    /\ Exit(0)
    /\ UNCHANGED <<state_code, district_code, last, args, case_details,
                   listing_info, todo, reqs>>

Next ==
    \/ UsageExit
    \/ Construct
    \/ CauseListStep
    \/ CauseListDone
    \/ FetchByCnr
    \/ FetchByDetails
    \/ FetchNothing
    \/ CheckListingStep
    \/ ListingDone
    \/ Display
    \/ DownloadPdf
    \/ SaveResults

Spec == Init /\ [][Next]_vars

-----------------------------------------------------------------------------
(* SpecWeb: the Flask facade.  One ECourtsScraper, made with the default   *)
(* codes when the module is loaded, serves every request; the requests run *)
(* on threads of their own and interleave between the steps below.         *)

RequestIds == {"A", "B"}

\* the query strings of GET /api/causelist; None is a parameter left out
QuerySpace ==
    [date : {None, JStr("Tomorrow"), JStr("friday")},
     state_code : {None, JStr(""), JStr("MH")},
     district_code : {None, JStr("2")}]

\* str.lower(), on the strings a date parameter takes here
Lower(s) ==
    CASE s \in {"today", "Today", "TODAY"} -> "today"
      [] s \in {"tomorrow", "Tomorrow", "TOMORROW"} -> "tomorrow"
      [] OTHER -> s

\* request.args.get(name, default)
ArgsGet(q, name, default) ==
    LET v == CASE name = "date" -> q.date
               [] name = "state_code" -> q.state_code
               [] name = "district_code" -> q.district_code
    IN  IF v = None THEN default ELSE v

ErrorBody(msg) == JObj(<< <<"error", JStr(msg)>> >>)

\* A request: its route, its query string (q) or JSON body (data), the place
\* of its handler (pc), the handler's locals (day, filename, details,
\* listings) and its response (status, body).  Three members record history:
\* made, the remote calls issued for it; got, the body the remote answered
\* its cause-list call with; prior, the requests answered before it came in;
\* alone, whether no other request was under way while it was.
IdleRequest ==
    [route |-> "none", q |-> [date |-> None, state_code |-> None,
                              district_code |-> None],
     data |-> None,
     pc |-> "idle", day |-> Now, filename |-> None, made |-> <<>>,
     details |-> None, listings |-> <<>>,
     got |-> <<>>, prior |-> {}, alone |-> TRUE,
     status |-> 0, body |-> None]

\* the handler of the request is running
UnderWay(rq) == rq.pc \notin {"idle", "done"}

\* request i comes in as rq: a thread of its own starts on its handler
Arrival(i, rq) ==
    [j \in RequestIds |->
        IF j = i
        THEN [rq EXCEPT !.prior = {k \in RequestIds : reqs[k].pc = "done"},
                        !.alone = \A k \in RequestIds : ~UnderWay(reqs[k])]
        ELSE IF UnderWay(reqs[j]) THEN [reqs[j] EXCEPT !.alone = FALSE]
        ELSE reqs[j]]

\* get_cause_list with the scraper's codes set from the query before the
\* date parameter is looked at
get_cause_list_begin_config_first(q, self) ==
    LET date_param == Lower(ArgsGet(q, "date", JStr("today"))[2])
        set == [state_code |->
                    IF Truthy(ArgsGet(q, "state_code", None))
                    THEN q.state_code ELSE self.state_code,
                district_code |->
                    IF Truthy(ArgsGet(q, "district_code", None))
                    THEN q.district_code ELSE self.district_code]
    IN  CASE date_param = "today" ->
                [status |-> 0, body |-> None, day |-> Now, self |-> set]
          [] date_param = "tomorrow" ->
                [status |-> 0, body |-> None, day |-> NextDay(Now),
                 self |-> set]
          [] OTHER ->
                [status |-> 400,
                 body |-> ErrorBody("Invalid date parameter. Use \"today\" or \"tomorrow\""),
                 day |-> Now, self |-> set]

\* get_cause_list, from its entry to the end of the date check: the status
\* and body it returns there (status 0 when it goes on), the date chosen,
\* and the scraper's codes as that part of the handler leaves them
get_cause_list_begin(q, self) ==
    LET date_param == Lower(ArgsGet(q, "date", JStr("today"))[2])
    IN  CASE date_param = "today" ->
                [status |-> 0, body |-> None, day |-> Now, self |-> self]
          [] date_param = "tomorrow" ->
                [status |-> 0, body |-> None, day |-> NextDay(Now),
                 self |-> self]
          [] OTHER ->
                [status |-> 400,
                 body |-> ErrorBody("Invalid date parameter. Use \"today\" or \"tomorrow\""),
                 day |-> Now, self |-> self]

WebInit ==
    /\ state_code = JStr("DL")
    /\ district_code = JStr("1")
    /\ calls = <<>> /\ files = NoFiles
    /\ dirs = {"downloads", "output"}
    /\ stdout = <<>> /\ stderr = <<>>
    /\ last = NoLast
    /\ reqs = [i \in RequestIds |-> IdleRequest]
    /\ CliIdle

WebFrame ==
    UNCHANGED <<last, pc, args, exit_code, case_details, listing_info, todo>>

ConfigFrame == UNCHANGED <<state_code, district_code>>

\* a GET /api/causelist request comes in
ArriveCauseList(i) ==
    /\ reqs[i].pc = "idle"
    /\ \E q \in QuerySpace :
          reqs' = Arrival(i, [IdleRequest EXCEPT !.route = "causelist",
                                                !.q = q,
                                                !.pc = "start"])
    /\ ConfigFrame /\ NoEffect /\ WebFrame

\* the date parameter is read and checked
CauseListValidate(i) ==
    /\ reqs[i].pc = "start"
    /\ LET b == get_cause_list_begin(reqs[i].q, Self)
       IN  /\ state_code' = b.self.state_code
           /\ district_code' = b.self.district_code
           /\ reqs' = [reqs EXCEPT ![i] =
                  IF b.status # 0
                  THEN [@ EXCEPT !.pc = "done", !.status = b.status,
                                 !.body = b.body]
                  ELSE [@ EXCEPT !.pc = "set_state", !.day = b.day]]
    /\ NoEffect /\ WebFrame

\* `if request.args.get('state_code'): scraper.state_code = ...`
CauseListSetState(i) ==
    /\ reqs[i].pc = "set_state"
    /\ state_code' = IF Truthy(ArgsGet(reqs[i].q, "state_code", None))
                     THEN ArgsGet(reqs[i].q, "state_code", None)
                     ELSE state_code
    /\ reqs' = [reqs EXCEPT ![i].pc = "set_district"]
    /\ UNCHANGED district_code /\ NoEffect /\ WebFrame

\* `if request.args.get('district_code'): scraper.district_code = ...`
CauseListSetDistrict(i) ==
    /\ reqs[i].pc = "set_district"
    /\ district_code' = IF Truthy(ArgsGet(reqs[i].q, "district_code", None))
                        THEN ArgsGet(reqs[i].q, "district_code", None)
                        ELSE district_code
    /\ reqs' = [reqs EXCEPT ![i].pc = "download"]
    /\ UNCHANGED state_code /\ NoEffect /\ WebFrame

\* scraper.download_cause_list(date, output_dir='downloads'), and the 500
\* when it returns no file name
CauseListDownload(i) ==
    /\ reqs[i].pc = "download"
    /\ \E r \in CliRemote("cause_list/daily_cause_list.php") :
          LET e == download_cause_list(Self, reqs[i].day, "downloads", r)
          IN  /\ Apply(e)
              /\ reqs' = [reqs EXCEPT ![i] =
                     IF e.raised # "none"
                     THEN [@ EXCEPT !.pc = "done", !.made = e.calls,
                                    !.status = 500,
                                    !.body = ErrorBody("Internal server error: "
                                                       \o e.raised)]
                     ELSE IF ~Truthy(e.ret)
                     THEN [@ EXCEPT !.pc = "done", !.made = e.calls,
                                    !.status = 500,
                                    !.body = ErrorBody("Failed to download cause list")]
                     ELSE [@ EXCEPT !.pc = "read", !.made = e.calls,
                                    !.got = r.content,
                                    !.filename = e.ret]]
    /\ ConfigFrame /\ WebFrame

\* the file is read back with json.load and returned; `except Exception`
\* turns a failure to load it into a 500
CauseListRespond(i) ==
    /\ reqs[i].pc = "read"
    /\ LET j == json_load(files[reqs[i].filename[2]])
       IN  reqs' = [reqs EXCEPT ![i] =
              IF j.ok
              THEN [@ EXCEPT !.pc = "done", !.status = 200,
                             !.body = JObj(<< <<"success", JBool(TRUE)>>,
                                              <<"data", j.val>>,
                                              <<"date", JStr(strftime_Y_m_d(reqs[i].day))>>,
                                              <<"timestamp", JStr(Isoformat(Now))>> >>)]
              ELSE [@ EXCEPT !.pc = "done", !.status = 500,
                             !.body = ErrorBody("Internal server error: JSONDecodeError")]]
    /\ ConfigFrame /\ NoEffect /\ WebFrame

-----------------------------------------------------------------------------
(* The POST routes of the facade: /api/search/cnr, /api/search/case and    *)
(* /api/listing/check.                                                     *)

\* a POST request that carries no JSON document
Absent == <<"absent">>

\* request.get_json(), every outcome it has for the body sent.  A JSON body
\* is returned decoded (None for `null`).  Without a JSON body Flask before
\* 2.1 returns None and Flask from 2.1 on raises (400, and 415 since 2.3);
\* the source does not pin the version.
get_json(sent) ==
    IF sent = Absent
    THEN {[raised |-> "none", val |-> None],
          [raised |-> "UnsupportedMediaType", val |-> None]}
    ELSE {[raised |-> "none", val |-> sent]}

Cnr1 == <<"cnr", JStr("DLNC01")>>

Triple1 ==
    << <<"case_type", JStr("CS")>>, <<"case_number", JStr("123")>>,
       <<"case_year", JStr("2024")>> >>

\* the bodies sent to POST /api/search/cnr
CnrBodies ==
    {Absent, None, JObj(<<>>),
     JObj(<< <<"state_code", JStr("KA")>> >>),
     JObj(<< Cnr1 >>),
     JObj(<< Cnr1, <<"state_code", JStr("KA")>>,
             <<"district_code", JStr("3")>> >>)}

\* the bodies sent to POST /api/search/case
CaseBodies ==
    {Absent, None,
     JObj(<< Triple1[1], Triple1[3] >>),
     JObj(Triple1),
     JObj(Triple1 \o << <<"state_code", JStr("KA")>> >>)}

\* the bodies sent to POST /api/listing/check
ListingBodies ==
    {None, JObj(<<>>),
     JObj(<< <<"district_code", JStr("3")>>, <<"check_today", JBool(TRUE)>> >>),
     JObj(<< Cnr1 >>),
     JObj(<< Cnr1, <<"check_today", JBool(TRUE)>>,
             <<"check_tomorrow", JBool(TRUE)>> >>),
     JObj(Triple1 \o << <<"check_tomorrow", JBool(TRUE)>> >>)}

\* Answers of the portal to the calls of the facade's POST routes
WebRemote(endpoint) ==
    {Answer("Timeout", 0, None, <<>>),
     Answer("none", 200, JStr("text/html"), << <<"junk", "<html>">> >>)}
    \cup {Answer("none", 200, JStr("application/json"), json_dump(v)) :
             v \in (IF endpoint = "cause_list/listing_by_date.php"
                    THEN {Listed, NotListed}
                    ELSE {CaseA, JObj(<<>>), JStr("maintenance")})}

\* `except Exception as e:` of every handler
InternalError(raised) == ErrorBody("Internal server error: " \o raised)

\* what a handler returns before its config update: status and body, status 0
\* where it goes on
GoOn == [status |-> 0, body |-> None]

\* search_by_cnr up to its config update
search_by_cnr_begin(data) ==
    IF ~Truthy(data) \/ ~HasKey(data, "cnr")
    THEN [status |-> 400, body |-> ErrorBody("CNR number is required")]
    ELSE GoOn

RECURSIVE Join(_, _)

\* sep.join(strs)
Join(sep, strs) ==
    IF strs = <<>> THEN ""
    ELSE IF Len(strs) = 1 THEN strs[1]
    ELSE strs[1] \o sep \o Join(sep, Tail(strs))

\* search_by_case up to its config update; `f not in data` raises TypeError
\* when data is None
search_by_case_begin(data) ==
    IF data = None
    THEN [status |-> 500, body |-> InternalError("TypeError")]
    ELSE LET missing_fields ==
                 SelectSeq(<<"case_type", "case_number", "case_year">>,
                           LAMBDA f : ~HasKey(data, f))
         IN  IF missing_fields # <<>>
             THEN [status |-> 400,
                   body |-> ErrorBody("Missing required fields: "
                                      \o Join(", ", missing_fields))]
             ELSE GoOn

\* check_listing (the route) up to its config update
check_listing_begin(data) ==
    IF ~Truthy(data)
    THEN [status |-> 400, body |-> ErrorBody("Request body is required")]
    ELSE GoOn

\* a POST request comes in on route with the body sent
ArrivePost(i, route, sent) ==
    /\ reqs[i].pc = "idle"
    /\ reqs' = Arrival(i, [IdleRequest EXCEPT !.route = route, !.data = sent,
                                              !.pc = "body"])
    /\ ConfigFrame /\ NoEffect /\ WebFrame

ArriveSearchByCnr(i) == \E sent \in CnrBodies : ArrivePost(i, "search_cnr", sent)

ArriveSearchByCase(i) ==
    \E sent \in CaseBodies : ArrivePost(i, "search_case", sent)

ArriveCheckListing(i) ==
    \E sent \in ListingBodies : ArrivePost(i, "listing", sent)

\* `data = request.get_json()` and the checks of the body that follow it
PostValidate(i) ==
    /\ reqs[i].pc = "body"
    /\ \E g \in get_json(reqs[i].data) :
          LET b == CASE reqs[i].route = "search_cnr" -> search_by_cnr_begin(g.val)
                     [] reqs[i].route = "search_case" -> search_by_case_begin(g.val)
                     [] reqs[i].route = "listing" -> check_listing_begin(g.val)
          IN  reqs' = [reqs EXCEPT ![i] =
                 IF g.raised # "none"
                 THEN [@ EXCEPT !.pc = "done", !.status = 500,
                                !.body = InternalError(g.raised)]
                 ELSE IF b.status # 0
                 THEN [@ EXCEPT !.pc = "done", !.data = g.val,
                                !.status = b.status, !.body = b.body]
                 ELSE [@ EXCEPT !.pc = "put_state", !.data = g.val]]
    /\ ConfigFrame /\ NoEffect /\ WebFrame

\* the scraper's code left by `if key in data: scraper.<code> = data[key]`
\* with the code reset to its default when the body has none
updated_code_or_default(data, key, current) ==
    IF HasKey(data, key) THEN DictGet(data, key, None)
    ELSE IF key = "state_code" THEN JStr("DL") ELSE JStr("1")

\* the scraper's code left by `if key in data: scraper.<code> = data[key]`
updated_code(data, key, current) ==
    IF HasKey(data, key) THEN DictGet(data, key, None) ELSE current

\* `if 'state_code' in data: scraper.state_code = data['state_code']`
PostSetState(i) ==
    /\ reqs[i].pc = "put_state"
    /\ state_code' = updated_code(reqs[i].data, "state_code", state_code)
    /\ reqs' = [reqs EXCEPT ![i].pc = "put_district"]
    /\ UNCHANGED district_code /\ NoEffect /\ WebFrame

\* `if 'district_code' in data: scraper.district_code = data['district_code']`
PostSetDistrict(i) ==
    /\ reqs[i].pc = "put_district"
    /\ district_code' = updated_code(reqs[i].data, "district_code",
                                     district_code)
    /\ reqs' = [reqs EXCEPT ![i].pc = "lookup"]
    /\ UNCHANGED state_code /\ NoEffect /\ WebFrame

HasTriple(data) ==
    HasKey(data, "case_type") /\ HasKey(data, "case_number")
    /\ HasKey(data, "case_year")

\* the body of a success response of the two search routes
SearchSuccess(details) ==
    JObj(<< <<"success", JBool(TRUE)>>, <<"data", details>>,
            <<"timestamp", JStr(Isoformat(Now))>> >>)

\* the lookup of the three routes and what follows it: the 400 of the listing
\* route for a body with neither a CNR nor the triple, the 404 without case
\* details, the success response of the search routes
PostLookup(i) ==
    /\ reqs[i].pc = "lookup"
    /\ LET rq == reqs[i]
           byCnr == rq.route = "search_cnr"
                    \/ (rq.route = "listing" /\ HasKey(rq.data, "cnr"))
           byDetails == rq.route = "search_case"
                        \/ (rq.route = "listing" /\ ~HasKey(rq.data, "cnr")
                            /\ HasTriple(rq.data))
       IN  IF ~byCnr /\ ~byDetails
           THEN /\ reqs' = [reqs EXCEPT ![i] =
                       [@ EXCEPT !.pc = "done", !.status = 400,
                                 !.body = ErrorBody("Provide either CNR or case details (type, number, year)")]]
                /\ NoEffect
           ELSE \E r \in WebRemote(IF byCnr THEN "case_status/cnr_search.php"
                                   ELSE "case_status/case_number_search.php") :
                   LET e == IF byCnr
                            THEN get_case_by_cnr(Self,
                                     DictGet(rq.data, "cnr", None), r)
                            ELSE get_case_by_details(Self,
                                     DictGet(rq.data, "case_type", None),
                                     DictGet(rq.data, "case_number", None),
                                     DictGet(rq.data, "case_year", None), r)
                   IN  /\ Apply(e)
                       /\ reqs' = [reqs EXCEPT ![i] =
                             IF e.raised # "none"
                             THEN [@ EXCEPT !.pc = "done", !.made = e.calls,
                                            !.status = 500,
                                            !.body = InternalError(e.raised)]
                             ELSE IF ~Truthy(e.ret)
                             THEN [@ EXCEPT !.pc = "done", !.made = e.calls,
                                            !.details = e.ret,
                                            !.status = 404,
                                            !.body = ErrorBody(
                                                IF rq.route = "listing"
                                                THEN "Case not found"
                                                ELSE "Case not found or error fetching details")]
                             ELSE IF rq.route = "listing"
                             THEN [@ EXCEPT !.pc = "today", !.made = e.calls,
                                            !.details = e.ret]
                             ELSE [@ EXCEPT !.pc = "done", !.made = e.calls,
                                            !.details = e.ret,
                                            !.status = 200,
                                            !.body = SearchSuccess(e.ret)]]
    /\ ConfigFrame /\ WebFrame

\* the body of a success response of the listing route
ListingSuccess(details, listings) ==
    JObj(<< <<"success", JBool(TRUE)>>,
            <<"data", JObj(<< <<"case_details", details>>,
                              <<"listings", JList(listings)>> >>)>>,
            <<"is_listed", JBool(Len(listings) > 0)>>,
            <<"timestamp", JStr(Isoformat(Now))>> >>)

\* the request of the listing route once the check of one day is over: on to
\* tomorrow's after today's, the success response after tomorrow's
AfterDay(rq, made, listings) ==
    IF rq.pc = "today"
    THEN [rq EXCEPT !.pc = "tomorrow", !.made = made, !.listings = listings]
    ELSE [rq EXCEPT !.pc = "done", !.made = made, !.listings = listings,
                    !.status = 200,
                    !.body = ListingSuccess(rq.details, listings)]

\* `if data.get('check_today', False): ...` and then the same for tomorrow;
\* a listing found is appended with its day, and neither check ends the other
ListingCheckDay(i) ==
    /\ reqs[i].pc \in {"today", "tomorrow"}
    /\ LET rq == reqs[i]
           label == rq.pc
           date == IF label = "today" THEN Now ELSE NextDay(Now)
       IN  IF ~Truthy(DictGet(rq.data, "check_" \o label, JBool(FALSE)))
           THEN /\ reqs' = [reqs EXCEPT ![i] = AfterDay(rq, rq.made, rq.listings)]
                /\ NoEffect
           ELSE \E r \in WebRemote("cause_list/listing_by_date.php") :
                   LET e == check_listing(Self, rq.details, date, r)
                   IN  /\ Apply(e)
                       /\ reqs' = [reqs EXCEPT ![i] =
                             IF e.raised # "none"
                             THEN [rq EXCEPT !.pc = "done",
                                             !.made = rq.made \o e.calls,
                                             !.status = 500,
                                             !.body = InternalError(e.raised)]
                             ELSE AfterDay(rq, rq.made \o e.calls,
                                      IF Truthy(e.ret)
                                      THEN Append(rq.listings,
                                               JObj(<< <<"day", JStr(label)>> >>
                                                    \o e.ret[2]))
                                      ELSE rq.listings)]
    /\ ConfigFrame /\ WebFrame

WebNext ==
    \E i \in RequestIds :
        \/ ArriveCauseList(i)
        \/ CauseListValidate(i)
        \/ CauseListSetState(i)
        \/ CauseListSetDistrict(i)
        \/ CauseListDownload(i)
        \/ CauseListRespond(i)
        \/ ArriveSearchByCnr(i)
        \/ ArriveSearchByCase(i)
        \/ ArriveCheckListing(i)
        \/ PostValidate(i)
        \/ PostSetState(i)
        \/ PostSetDistrict(i)
        \/ PostLookup(i)
        \/ ListingCheckDay(i)

SpecWeb == WebInit /\ [][WebNext]_vars

-----------------------------------------------------------------------------
(* Properties of the scraper operations, over SpecOps.                     *)

\* the transport raised, or the status made raise_for_status raise
TransportFailed(r) == r.exc # "none" \/ r.status \in 400..599

\* the body of a successful answer is no JSON document
BodyNotJson(r) == ~TransportFailed(r) /\ r.content \in NotJson

\* the JSON value a successful answer carries is one of vs
Carries(r, vs) ==
    ~TransportFailed(r) /\ \E v \in vs : r.content = json_dump(v)

RemoteOps ==
    {"get_case_by_cnr", "get_case_by_details", "check_listing",
     "download_case_pdf", "download_cause_list"}

\* C1: whenever the transport raises a request exception (timeout,
\* connection failure, error status), the operation built on the request
\* client returns None and no exception leaves it.
C1_TransportFailureReturnsNone ==
    (last.op \in RemoteOps /\ TransportFailed(last.remote))
        => /\ last.res.ret = None
           /\ last.res.raised = "none"
           /\ Len(last.res.calls) = 1

C1_Witness ==
    /\ last.op = "download_case_pdf"
    /\ last.remote.exc = "ConnectionError"
    /\ last.res.ret = None
    /\ last.res.raised = "none"

\* C2: for a successful answer whose body is not JSON, the two lookups,
\* check_listing and download_cause_list each return None and write exactly
\* one diagnostic to stderr.
C2_NotJsonOneDiagnostic ==
    (last.op \in {"get_case_by_cnr", "get_case_by_details", "check_listing",
                  "download_cause_list"}
     /\ BodyNotJson(last.remote))
        => /\ last.res.ret = None
           /\ Len(last.res.err) = 1

\* the dicts among the remote's JSON values whose is_listed flag is truthy
FlaggedValues ==
    {v \in JsonValues :
        IsDict(v) /\ HasKey(v, "is_listed") /\ Truthy(DictGet(v, "is_listed", None))}

\* the dicts whose flag is absent or falsy
UnflaggedValues == {v \in JsonValues : IsDict(v)} \ FlaggedValues

ListingKeys ==
    <<"date", "serial_number", "court_name", "court_hall", "hearing_time">>

C4_PdfOnlyForExactContentType ==
    last.op = "download_case_pdf"
        => LET accepted == /\ ~TransportFailed(last.remote)
                           /\ last.remote.ctype = JStr("application/pdf")
           IN  /\ (last.res.ret # None) <=> accepted
               /\ accepted
                      => /\ Len(last.res.writes) = 1
                         /\ last.res.writes[1][1] = last.res.ret[2]
                         /\ last.res.ret[2] \in DOMAIN files
                         /\ files[last.res.ret[2]] = last.remote.content
               /\ ~accepted
                      => /\ last.res.writes = <<>>
                         /\ last.res.err # <<>>
                         /\ last.res.err[Len(last.res.err)] = "PDF not available"
                         /\ last.n = 1 => DOMAIN files = {}

C4_Witness ==
    /\ last.op = "download_case_pdf"
    /\ last.remote.exc = "none" /\ last.remote.status = 200
    /\ last.remote.ctype = JStr("application/pdf; charset=binary")
    /\ last.res.ret = None
    /\ DOMAIN files = {}

-----------------------------------------------------------------------------
(* Properties of main(), over Spec.                                        *)

\* the run ended in parser.error(): status 2, the usage message on stderr
EndedInUsageError ==
    /\ pc = "exit" /\ exit_code = 2
    /\ stderr \in {<<UsageNoMode>>, <<UsageNeedsDay>>}

\* the run has not gone past the validation of its command line
StoppedAtValidation ==
    /\ pc \in {"validate", "exit"}
    /\ pc = "exit" => EndedInUsageError
    /\ calls = <<>> /\ DOMAIN files = {} /\ dirs = {}

TripleGiven(a) == a.case_type # None /\ a.case_number # None /\ a.case_year # None

\* C5: a command line with none of --cnr, the full triple and --causelist
\* ends in a usage error with a non-zero status; no remote call is made and
\* no file written at any point of the run.
C5_NoModeIsUsageError ==
    (args.cnr = None /\ ~TripleGiven(args) /\ ~args.causelist)
        => /\ StoppedAtValidation
           /\ pc = "exit" => stderr = <<UsageNoMode>>

C5_Witness ==
    /\ args.cnr = None /\ args.case_type # None /\ args.case_number = None
    /\ ~args.causelist /\ args.today
    /\ EndedInUsageError

\* C6: --causelist with neither --today nor --tomorrow is a usage error with
\* a non-zero status before any remote call, whatever case-search options
\* come with it.
C6_CauselistNeedsDay ==
    (args.causelist /\ ~args.today /\ ~args.tomorrow)
        => /\ StoppedAtValidation
           /\ pc = "exit" => stderr = <<UsageNeedsDay>>

C6_Witness ==
    /\ args.causelist /\ ~args.today /\ ~args.tomorrow
    /\ Truthy(args.cnr) /\ TripleGiven(args)
    /\ EndedInUsageError

\* the lookup modes a command line gives
Modes(a) ==
    (IF Truthy(a.cnr) THEN {"cnr"} ELSE {})
    \cup (IF FullTriple(a) THEN {"triple"} ELSE {})
    \cup (IF a.causelist THEN {"causelist"} ELSE {})

\* C7 as stated: a command line that combines more than one lookup mode is
\* rejected as a usage error.
C7_CombinedModesRejected ==
    Cardinality(Modes(args)) > 1 => StoppedAtValidation

\* C7 as amended: the command line is a usage error exactly when it gives
\* no lookup mode, or gives --causelist without a day; a command line that
\* combines modes is accepted, the cause lists are fetched before the case
\* lookup, and --cnr takes precedence over the triple.
C7_AtLeastOneMode ==
    /\ pc # "validate"
          => (exit_code = 2
                <=> \/ Modes(args) = {}
                    \/ args.causelist /\ ~(args.today \/ args.tomorrow))
    /\ \A i \in 1..Len(calls) :
          /\ calls[i].endpoint = "case_status/case_number_search.php"
                => ~Truthy(args.cnr)
          /\ calls[i].endpoint = "cause_list/daily_cause_list.php"
                => \A k \in 1..i :
                      calls[k].endpoint = "cause_list/daily_cause_list.php"

C7_Witness ==
    /\ Modes(args) = {"cnr", "triple", "causelist"}
    /\ pc = "exit" /\ exit_code = 0
    /\ calls[1].endpoint = "cause_list/daily_cause_list.php"
    /\ \E i \in 2..Len(calls) : calls[i].endpoint = "case_status/cnr_search.php"

ResultsPath == "output/" \o ResultsFilename

\* C9: the file save_results wrote loads back, with json.load, to the very
\* structure it was given (timestamp, case_details, listing_info,
\* search_params), a None listing_info and None search parameters included.
C9_SavedResultsRoundTrip ==
    (pc = "exit" /\ exit_code = 0 /\ "Results saved" \in {stdout[i] : i \in 1..Len(stdout)})
        => /\ ResultsPath \in DOMAIN files
           /\ json_load(files[ResultsPath])
                = [ok |-> TRUE,
                   val |-> Results(args, case_details, listing_info)]
           /\ LET loaded == json_load(files[ResultsPath]).val
              IN  /\ DictGet(loaded, "case_details", JStr("?")) = case_details
                  /\ DictGet(loaded, "listing_info", JStr("?")) = listing_info
                  /\ DictGet(DictGet(loaded, "search_params", JObj(<<>>)),
                             "cnr", JStr("?")) = args.cnr

C9_Witness ==
    /\ pc = "exit" /\ exit_code = 0
    /\ ResultsPath \in DOMAIN files
    /\ listing_info = None
    /\ args.cnr = None /\ args.today
    /\ json_load(files[ResultsPath]).val
          = Results(args, case_details, None)

LookupEndpoints ==
    {"case_status/cnr_search.php", "case_status/case_number_search.php"}

\* the lookup of this run has been made
LookedUp == \E i \in 1..Len(calls) : calls[i].endpoint \in LookupEndpoints

\* C10: when a case was requested (--cnr or the full triple) and the lookup
\* returns no case details (None or an empty result), the process exits with
\* status 1; no listing check, no PDF download and no write of the results
\* file happens in that run.
C10_NoCaseDetailsExitsOne ==
    ((Truthy(args.cnr) \/ FullTriple(args)) /\ LookedUp /\ ~Truthy(case_details))
        => /\ pc = "exit" /\ exit_code = 1
           /\ stderr[Len(stderr)] = "Could not fetch case details"
           /\ \A i \in 1..Len(calls) :
                 calls[i].endpoint \notin {"cause_list/listing_by_date.php",
                                           "case_status/download_case_pdf.php"}
           /\ ResultsPath \notin DOMAIN files

C10_Witness ==
    /\ FullTriple(args) /\ ~Truthy(args.cnr) /\ args.today /\ args.download_pdf
    /\ LookedUp
    /\ case_details = JObj(<<>>)
    /\ pc = "exit" /\ exit_code = 1

\* the place of a remote call in main(): cause lists, lookup, listing checks,
\* PDF
StepRank(endpoint) ==
    CASE endpoint = "cause_list/daily_cause_list.php" -> 1
      [] endpoint \in LookupEndpoints -> 2
      [] endpoint = "cause_list/listing_by_date.php" -> 3
      [] endpoint = "case_status/download_case_pdf.php" -> 4

\* the remote calls made so far to endpoint, in the order they were made
CallsTo(endpoint) == SelectSeq(calls, LAMBDA c : c.endpoint = endpoint)

ListingChecks == CallsTo("cause_list/listing_by_date.php")

\* the lines of stdout that are tag
Printed(tag) == SelectSeq(stdout, LAMBDA line : line = tag)

\* a case run that ended well: the lookup was made and the status is 0
SuccessfulCaseRun == pc = "exit" /\ exit_code = 0 /\ LookedUp

\* C12: the remote calls of a CLI run come in the order cause lists, lookup,
\* listing checks, PDF; the listing checks go through the days asked for,
\* today before tomorrow, and stop at the first that returns a listing, which
\* is the listing_info recorded; a successful case run has downloaded every
\* cause list asked for and the PDF if asked for, and ends with the one write
\* of the results file.
C12_StepsInOrder ==
    /\ \A i, j \in 1..Len(calls) :
          i < j => StepRank(calls[i].endpoint) <= StepRank(calls[j].endpoint)
    /\ Len(ListingChecks) <= Len(Dates(args))
    /\ \A k \in 1..Len(ListingChecks) :
          DictGet(ListingChecks[k].data, "date", None)
             = JStr(strftime_dmy(Dates(args)[k]))
    /\ Truthy(listing_info)
          => /\ ListingChecks # <<>>
             /\ DictGet(listing_info, "date", None)
                  = DictGet(ListingChecks[Len(ListingChecks)].data, "date",
                            JStr("?"))
    /\ Len(Printed("Results saved")) <= 1
    /\ (ResultsPath \in DOMAIN files \/ Printed("Results saved") # <<>>)
          => /\ pc = "exit" /\ exit_code = 0
             /\ stdout[Len(stdout)] = "Results saved"
    /\ SuccessfulCaseRun
          => /\ ResultsPath \in DOMAIN files
             /\ Len(Printed("Results saved")) = 1
             /\ Len(CallsTo("cause_list/daily_cause_list.php"))
                  = (IF args.causelist THEN Len(Dates(args)) ELSE 0)
             /\ Len(CallsTo("case_status/download_case_pdf.php"))
                  = (IF args.download_pdf THEN 1 ELSE 0)
             /\ ~Truthy(listing_info)
                  => Len(ListingChecks) = Len(Dates(args))

\* a run with every step: both cause lists, the lookup, today's check that
\* returns a listing and ends the checks, the PDF, the results
C12_Witness ==
    /\ SuccessfulCaseRun
    /\ args.causelist /\ args.today /\ args.tomorrow /\ args.download_pdf
    /\ Len(calls) = 5
    /\ Len(ListingChecks) = 1
    /\ DictGet(listing_info, "date", None) = JStr(strftime_dmy(Now))
    /\ stdout[Len(stdout)] = "Results saved"

-----------------------------------------------------------------------------
(* Properties of the facade, over SpecWeb.                                 *)

PostRoutes == {"search_cnr", "search_case", "listing"}

\* the request came without a body, or its body lacks what its route requires
ValidationFailure(rq) ==
    /\ rq.route \in PostRoutes
    /\ \/ rq.data \in {Absent, None}
       \/ rq.route = "search_cnr" /\ ~HasKey(rq.data, "cnr")
       \/ rq.route = "search_case" /\ ~HasTriple(rq.data)
       \/ rq.route = "listing" /\ ~HasKey(rq.data, "cnr")
          /\ ~HasTriple(rq.data)

\* the lookup made for the request returned no case details
LookupFoundNothing(rq) ==
    /\ rq.route \in PostRoutes
    /\ rq.made # <<>>
    /\ rq.made[1].endpoint \in LookupEndpoints
    /\ ~Truthy(rq.details)

\* the bodies `except Exception` answers with
ExceptionBodies ==
    {InternalError(x) : x \in {"TypeError", "AttributeError",
                               "UnsupportedMediaType", "JSONDecodeError"}}

\* C11: every failure response of the facade is an {error} body with status
\* 400, 404 or 500 by its cause: a request to one of the three POST routes
\* without a body or without the required fields is answered 400, a lookup
\* that returns no case details 404, and a 500 comes only from an exception
\* caught.
C11_FailureStatusByCause ==
    \A i \in RequestIds :
        LET rq == reqs[i]
        IN  rq.pc = "done"
            => /\ rq.status \in {200, 400, 404, 500}
               /\ rq.status # 200
                    => /\ IsDict(rq.body)
                       /\ Len(rq.body[2]) = 1
                       /\ HasKey(rq.body, "error")
               /\ ValidationFailure(rq) => rq.status = 400
               /\ LookupFoundNothing(rq) => rq.status = 404
               /\ rq.status = 500 => rq.body \in ExceptionBodies

\* the request's date parameter is neither 'today' nor 'tomorrow', in any
\* case of the letters
InvalidDate(rq) ==
    /\ rq.route = "causelist"
    /\ rq.q.date # None
    /\ rq.q.date[2] \notin {"today", "Today", "TODAY",
                             "tomorrow", "Tomorrow", "TOMORROW"}

InvalidDateBody ==
    ErrorBody("Invalid date parameter. Use \"today\" or \"tomorrow\"")

\* C8: GET /api/causelist with a date parameter other than 'today' or
\* 'tomorrow' answers 400 with the invalid-date message and makes no remote
\* call; none of its steps changes the shared scraper's state_code or
\* district_code, the remote calls or the files, whatever state_code and
\* district_code parameters the request carries.
C8_InvalidDateIs400NoEffect ==
    /\ [](\A i \in RequestIds :
            InvalidDate(reqs[i])
               => /\ reqs[i].pc \in {"start", "done"}
                  /\ reqs[i].made = <<>>
                  /\ reqs[i].pc = "done"
                        => /\ reqs[i].status = 400
                           /\ reqs[i].body = InvalidDateBody)
    /\ [][\A i \in RequestIds :
            (InvalidDate(reqs'[i]) /\ reqs'[i] # reqs[i])
               => UNCHANGED <<state_code, district_code, calls, files>>]_vars

C8_Witness ==
    \E i \in RequestIds :
        /\ InvalidDate(reqs[i])
        /\ reqs[i].q.state_code = JStr("MH")
        /\ reqs[i].q.district_code = JStr("2")
        /\ reqs[i].pc = "done" /\ reqs[i].status = 400
        /\ state_code = JStr("DL") /\ district_code = JStr("1")
        /\ calls = <<>>

\* the name a request gives a code under, and the name the remote call
\* carries it under
CodeKeys == {"state_code", "district_code"}

CarriedKey(key) == IF key = "state_code" THEN "state_code" ELSE "dist_code"

\* the request supplies the code: a truthy query parameter of the cause-list
\* route, a member of the body of a POST route
Supplies(rq, key) ==
    IF rq.route = "causelist"
    THEN Truthy(ArgsGet(rq.q, key, None))
    ELSE rq.route \in PostRoutes /\ IsDict(rq.data) /\ HasKey(rq.data, key)

Supplied(rq, key) ==
    IF rq.route = "causelist" THEN ArgsGet(rq.q, key, None)
    ELSE DictGet(rq.data, key, None)

\* the request passes the checks that stand before the config update of its
\* handler
Configures(rq) ==
    CASE rq.route = "causelist" -> ~InvalidDate(rq)
      [] rq.route = "search_cnr" -> IsDict(rq.data) /\ HasKey(rq.data, "cnr")
      [] rq.route = "search_case" -> IsDict(rq.data) /\ HasTriple(rq.data)
      [] rq.route = "listing" -> Truthy(rq.data)
      [] OTHER -> FALSE

DefaultCode(key) == IF key = "state_code" THEN JStr("DL") ELSE JStr("1")

SharedCode(key) == IF key = "state_code" THEN state_code ELSE district_code

\* the earlier requests that set the code before request i came in
Setters(i, key) ==
    {j \in reqs[i].prior : Configures(reqs[j]) /\ Supplies(reqs[j], key)}

\* the code a request served on its own is to carry: its own, else the one
\* the most recent earlier request set, else the default
StickyCode(i, key) ==
    IF Supplies(reqs[i], key) THEN Supplied(reqs[i], key)
    ELSE IF Setters(i, key) # {}
    THEN Supplied(reqs[CHOOSE j \in Setters(i, key) : TRUE], key)
    ELSE DefaultCode(key)

\* C13: the one scraper is shared without a lock.  Every remote call carries
\* the codes the scraper holds at the moment of the call, whichever request
\* wrote them (so a call made for one request can carry the codes another
\* request supplied, as the witness shows); and in sequential use the codes
\* are sticky: the calls of a request served on its own carry the codes it
\* supplies, else those the most recent earlier request set, and the defaults
\* DL/1 only when no earlier request set them.
C13_SharedCodesCrossRequests ==
    /\ [](\A i \in RequestIds : \A key \in CodeKeys :
            reqs[i].alone
               => \A n \in 1..Len(reqs[i].made) :
                     DictGet(reqs[i].made[n].data, CarriedKey(key), JStr("?"))
                        = StickyCode(i, key))
    /\ [][\A i \in RequestIds : \A key \in CodeKeys :
            Len(reqs'[i].made) > Len(reqs[i].made)
               => DictGet(reqs'[i].made[Len(reqs'[i].made)].data,
                          CarriedKey(key), JStr("?")) = SharedCode(key)]_vars

\* request i asked /api/search/cnr with state KA and district 3, and its
\* lookup went out with the state MH and the district 2 of the other request
C13_Witness ==
    \E i, j \in RequestIds :
        /\ i # j
        /\ reqs[i].route = "search_cnr"
        /\ Supplies(reqs[i], "state_code")
        /\ Supplies(reqs[i], "district_code")
        /\ Supplied(reqs[i], "state_code") = JStr("KA")
        /\ Supplied(reqs[i], "district_code") = JStr("3")
        /\ Supplies(reqs[j], "state_code")
        /\ Len(reqs[i].made) = 1
        /\ DictGet(reqs[i].made[1].data, "state_code", None)
              = Supplied(reqs[j], "state_code")
        /\ DictGet(reqs[i].made[1].data, "state_code", None) = JStr("MH")
        /\ DictGet(reqs[i].made[1].data, "dist_code", None) = JStr("2")

\* the request went through download_cause_list and has been answered
AnsweredDownload(rq) ==
    rq.route = "causelist" /\ rq.pc = "done" /\ Truthy(rq.filename)

\* C14: GET /api/causelist saves the blob in a file named by the date alone
\* and reads that file back.  A request served on its own answers 200 with,
\* as data, the very blob the remote returned to its own call (the
\* counterpart, a request answered with the blob another request fetched
\* for the same date, is the witness).
C14_CauseListDataIsOwnBlobAlone ==
    \A i \in RequestIds :
        /\ (reqs[i].route = "causelist" /\ Truthy(reqs[i].filename))
              => reqs[i].filename
                   = JStr("downloads/cause_list_"
                          \o strftime_Ymd(reqs[i].day) \o ".json")
        /\ (AnsweredDownload(reqs[i]) /\ reqs[i].alone)
              => /\ reqs[i].status = 200
                 /\ json_load(reqs[i].got).ok
                 /\ DictGet(reqs[i].body, "data", JStr("?"))
                      = json_load(reqs[i].got).val

\* two requests for the same date with different state codes, under way
\* together: i is answered with the blob j fetched, not its own
C14_Witness ==
    \E i, j \in RequestIds :
        /\ i # j
        /\ AnsweredDownload(reqs[i])
        /\ reqs[j].route = "causelist" /\ Truthy(reqs[j].filename)
        /\ reqs[i].day = reqs[j].day
        /\ reqs[i].q.state_code # reqs[j].q.state_code
        /\ reqs[i].status = 200
        /\ json_load(reqs[i].got).val # json_load(reqs[j].got).val
        /\ DictGet(reqs[i].body, "data", JStr("?")) = json_load(reqs[j].got).val

=============================================================================
